---- MODULE Spec2Model ----
(***************************************************************************)
(* A model of the SageMaker benchmarking harness                           *)
(* src/aws_resources/benchmarking/benchmark.py: the image compressor, the  *)
(* single-call prober (benchmark_endpoint), the health gate, the warm-up   *)
(* controller and the frame loop of run_benchmarks with its thread pool,   *)
(* the KeyboardInterrupt handler and the two CSV artifacts.                *)
(*                                                                         *)
(* A Python dict is a TLA+ record: its keys are the record's DOMAIN.       *)
(* An f-string is the sequence of its pieces.  Sizes in MB, rounded to two *)
(* places, are integers in hundredths.                                     *)
(*                                                                         *)
(* The environment: each health query answers InService, another status   *)
(* or raises; each warm-up call succeeds or raises; each measurement call  *)
(* succeeds or fails, and the failures of one run are of one kind          *)
(* (timeout, transport error, a body that is no JSON, a JSON body that is  *)
(* no object), every kind being tried.  The names of the endpoint list are *)
(* distinct.  At most one KeyboardInterrupt is raised, at any point of the *)
(* try block of lines 281-297.  The size of a JPEG encode is the           *)
(* encoder's: any size, at any quality and scale.                          *)
(*                                                                         *)
(* Spec is the whole run.  SpecProber, SpecCompress and SpecSummary are    *)
(* one fan-out, one compress_image call and the writing of the artifacts,  *)
(* each over a wider range of inputs than the whole run affords.           *)
(***************************************************************************)
EXTENDS Integers, Sequences, FiniteSets, TLC

VARIABLES
    input_endpoints,    \* the endpoints argument of run_benchmarks
    images,             \* the image files found in image_folder
    max_size,           \* the max_size argument
    quality,            \* the quality argument
    warmup,             \* the warmup argument
    pc,                 \* position of the control thread in run_benchmarks
    h,                  \* index of the next endpoint the health loop queries
    describe_calls,     \* endpoint -> number of describe_endpoint calls made
    observed,           \* endpoint -> what its health query gave
    healthy_endpoints,  \* the list built by the health loop
    endpoints,          \* the local name endpoints (rebound at line 249)
    compressed_images,  \* list of (img_bytes, metadata)
    wu,                 \* warm-up: endpoint index, loop index, and what the last
                        \* warm_up_endpoint call that returned did and returned
    invoked,            \* the endpoints invoke_endpoint was called for, per phase
    failure,            \* the way invoke_endpoint fails in this run, when it fails
    oversize_sent,      \* an invoke_endpoint body longer than the ceiling was sent
    i,                  \* index of the current frame
    futures,            \* frame -> list of the futures submitted for it
    k,                  \* index of the next future whose result() is awaited
    results,            \* the results list
    frame_of,           \* for each entry of results, the frame that appended it
    sleeps,             \* number of pacing sleeps (line 297) done
    interrupted,        \* where the control thread was when a KeyboardInterrupt was
                        \* raised in it, "no" before
    raw_file,           \* benchmark_results_*.csv
    summary_file        \* benchmark_summary_*.csv

vars == <<input_endpoints, images, max_size, quality,
          warmup, pc, h, describe_calls, observed,
          healthy_endpoints, endpoints, compressed_images, wu, invoked, failure,
          oversize_sent, i, futures, k, results, frame_of, sleeps,
          interrupted, raw_file, summary_file>>

(***************************************************************************)
(* Bounds of the model.                                                    *)
(***************************************************************************)
MaxEndpoints == 2
MaxImages == 2
MaxWarmup == 2
MaxEncodes == 3
MaxResults == 3

(***************************************************************************)
(* Program constants.                                                      *)
(***************************************************************************)
MAX_PAYLOAD_SIZE_MB == 6
MAX_PAYLOAD_SIZE_BYTES == MAX_PAYLOAD_SIZE_MB * 1024 * 1024
QualityFloor == 20
QualityStep == 10
DefaultQuality == 85
DefaultMaxSize == 1280

EndpointNames == <<"yolo-n", "yolo-s", "yolo-m", "yolo-l">>
Endpoints == {EndpointNames[n] : n \in 1..MaxEndpoints}

Min(a, b) == IF a < b THEN a ELSE b

(***************************************************************************)
(* round(x / (1024 * 1024), 2) of a byte count, in hundredths of a MB.     *)
(***************************************************************************)
RoundMB(bytes) ==
    (bytes \div (1024 * 1024)) * 100
      + ((bytes % (1024 * 1024)) * 100 + 512 * 1024) \div (1024 * 1024)

(***************************************************************************)
(* compress_image.  An image is what the encoder makes of it: enc[n] is    *)
(* the size of the n-th encode (the last size repeats).                    *)
(***************************************************************************)
EncodedSize(img, n) == img.enc[Min(n, Len(img.enc))]

\* the loop going on at the floor itself
RECURSIVE QualityLoopThroughFloor(_, _, _)
QualityLoopThroughFloor(img, current_quality, n) ==
    IF EncodedSize(img, n) > MAX_PAYLOAD_SIZE_BYTES /\ current_quality >= QualityFloor
    THEN QualityLoopThroughFloor(img, current_quality - QualityStep, n + 1)
    ELSE [compressed_size_bytes |-> EncodedSize(img, n),
          current_quality |-> current_quality,
          encodes |-> n]

\* lines 59-66
RECURSIVE QualityLoop(_, _, _)
QualityLoop(img, current_quality, n) ==
    IF EncodedSize(img, n) > MAX_PAYLOAD_SIZE_BYTES /\ current_quality > QualityFloor
    THEN QualityLoop(img, current_quality - QualityStep, n + 1)
    ELSE [compressed_size_bytes |-> EncodedSize(img, n),
          current_quality |-> current_quality,
          encodes |-> n]

\* under_limit taken as "not over the ceiling"
compress_image_at_most_limit(img, start_quality) ==
    LET out == QualityLoop(img, start_quality, 1)
    IN  [bytes |-> out.compressed_size_bytes,
         metadata |->
            [original_path |-> img.path,
             original_size_mb |-> RoundMB(img.original_size_bytes),
             compressed_size_mb |-> RoundMB(out.compressed_size_bytes),
             compressed_dimensions |-> img.dimensions,
             final_quality |-> out.current_quality,
             under_limit |-> out.compressed_size_bytes <= MAX_PAYLOAD_SIZE_BYTES]]

compress_image(img, start_quality) ==
    LET out == QualityLoop(img, start_quality, 1)
    IN  [bytes |-> out.compressed_size_bytes,
         metadata |->
            [original_path |-> img.path,
             original_size_mb |-> RoundMB(img.original_size_bytes),
             compressed_size_mb |-> RoundMB(out.compressed_size_bytes),
             compressed_dimensions |-> img.dimensions,
             final_quality |-> out.current_quality,
             under_limit |-> out.compressed_size_bytes < MAX_PAYLOAD_SIZE_BYTES]]

(***************************************************************************)
(* The images a run may find: one that fits at the starting quality and    *)
(* one that is over the ceiling even at the quality floor.                 *)
(***************************************************************************)
SmallImage ==
    [path |-> "small.jpg", original_size_bytes |-> 3 * 1024 * 1024,
     dimensions |-> "1280x720", enc |-> <<2 * 1024 * 1024>>]
HugeImage ==
    [path |-> "huge.png", original_size_bytes |-> 40 * 1024 * 1024,
     dimensions |-> "1280x1280", enc |-> <<MAX_PAYLOAD_SIZE_BYTES + 1>>]
ImagePool == {SmallImage, HugeImage}

(***************************************************************************)
(* Images around the ceiling, for the prober on its own: one byte under,   *)
(* exactly at and one byte over it, and one that gets under the ceiling    *)
(* after two quality reductions.                                           *)
(***************************************************************************)
JustUnderImage ==
    [path |-> "under.jpg", original_size_bytes |-> 9 * 1024 * 1024,
     dimensions |-> "1280x960", enc |-> <<MAX_PAYLOAD_SIZE_BYTES - 1>>]
CeilingImage ==
    [path |-> "ceiling.jpg", original_size_bytes |-> 9 * 1024 * 1024,
     dimensions |-> "1280x960", enc |-> <<MAX_PAYLOAD_SIZE_BYTES>>]
ShrinkingImage ==
    [path |-> "shrinks.jpeg", original_size_bytes |-> 20 * 1024 * 1024,
     dimensions |-> "1280x853",
     enc |-> <<MAX_PAYLOAD_SIZE_BYTES + 4096, MAX_PAYLOAD_SIZE_BYTES + 1,
               5 * 1024 * 1024>>]
ProberImages ==
    {SmallImage, JustUnderImage, CeilingImage, HugeImage, ShrinkingImage}

(***************************************************************************)
(* benchmark_endpoint.  What invoke_endpoint and the reading of its        *)
(* response do is the environment's choice.                                *)
(***************************************************************************)
FailureKinds == {"timeout", "transport", "bad_json", "not_object"}
InvokeOutcomes == {"ok"} \cup FailureKinds

ExceptionMessage(outcome) ==
    CASE outcome = "timeout" -> "Read timeout on endpoint URL"
      [] outcome = "transport" -> "Could not connect to the endpoint URL"
      [] outcome = "bad_json" -> "Expecting value: line 1 column 1 (char 0)"
      [] outcome = "not_object" -> "'list' object has no attribute 'get'"

\* the handler of line 143 as "except ReadTimeoutError"
CaughtOnlyTimeouts(outcome) == outcome = "timeout"

\* what line 143, except Exception, catches
Caught(outcome) == outcome \in FailureKinds

\* the test of line 107 off by one byte
PayloadTooLargeAbove(len) == len > MAX_PAYLOAD_SIZE_BYTES + 1

\* line 107
PayloadTooLarge(len) == len > MAX_PAYLOAD_SIZE_BYTES

\* lines 108-114
TooLargeResult(endpoint_name, len, image_metadata) ==
    [Model |-> endpoint_name,
     Timestamp |-> "now",
     Original_Size_MB |-> image_metadata.original_size_mb,
     Payload_Size_MB |-> RoundMB(len),
     Status |-> <<"Error: ", "Payload too large (", RoundMB(len), " MB > ",
                  MAX_PAYLOAD_SIZE_MB, " MB limit)">>]

\* the body of a well-formed response
OkBody == [model_latency_ms |-> 50, max_confidence |-> 91, detections_count |-> 3]
RoundtripMs == 120

\* lines 131-142
SuccessResult(endpoint_name, len, image_metadata) ==
    [Model |-> endpoint_name,
     Timestamp |-> "now",
     Roundtrip_Latency_ms |-> RoundtripMs,
     Inference_Latency_ms |-> OkBody.model_latency_ms,
     Max_Confidence |-> OkBody.max_confidence,
     Detections |-> OkBody.detections_count,
     Original_Size_MB |-> image_metadata.original_size_mb,
     Payload_Size_MB |-> RoundMB(len),
     Image_Dimensions |-> image_metadata.compressed_dimensions,
     Status |-> <<"Success">>]

\* the error result with a latency made up for the failed call
ErrorResultWithLatency(endpoint_name, len, image_metadata, outcome) ==
    [Model |-> endpoint_name,
     Timestamp |-> "now",
     Roundtrip_Latency_ms |-> RoundtripMs,
     Original_Size_MB |-> image_metadata.original_size_mb,
     Payload_Size_MB |-> RoundMB(len),
     Image_Dimensions |-> image_metadata.compressed_dimensions,
     Status |-> <<"Error: ", ExceptionMessage(outcome)>>]

\* lines 148-155
ErrorResult(endpoint_name, len, image_metadata, outcome) ==
    [Model |-> endpoint_name,
     Timestamp |-> "now",
     Original_Size_MB |-> image_metadata.original_size_mb,
     Payload_Size_MB |-> RoundMB(len),
     Image_Dimensions |-> image_metadata.compressed_dimensions,
     Status |-> <<"Error: ", ExceptionMessage(outcome)>>]

NoResult == [Status |-> <<"(no result)">>]

(***************************************************************************)
(* A future: where its call of benchmark_endpoint is, how many             *)
(* invoke_endpoint calls it made, and what it returned or raised.          *)
(***************************************************************************)
NewFuture(ep) ==
    [endpoint |-> ep, st |-> "submitted", invocations |-> 0, outcome |-> "none",
     raised |-> FALSE, res |-> NoResult]

\* lines 102-122: up to the invoke_endpoint call
ProberEnter(fut, len, meta) ==
    IF PayloadTooLarge(len)
    THEN [fut EXCEPT !.st = "done", !.res = TooLargeResult(fut.endpoint, len, meta)]
    ELSE [fut EXCEPT !.st = "invoking", !.invocations = @ + 1]

\* the prober calling invoke_endpoint a second time after a failure
ProberLeaveRetrying(fut, len, meta, outcome) ==
    IF outcome = "ok"
    THEN [fut EXCEPT !.st = "done", !.outcome = outcome,
                     !.res = SuccessResult(fut.endpoint, len, meta)]
    ELSE [fut EXCEPT !.st = "done", !.outcome = outcome,
                     !.invocations = @ + 1,
                     !.res = ErrorResult(fut.endpoint, len, meta, outcome)]

\* lines 123-155: from the return of invoke_endpoint
ProberLeave(fut, len, meta, outcome) ==
    IF outcome = "ok"
    THEN [fut EXCEPT !.st = "done", !.outcome = outcome,
                     !.res = SuccessResult(fut.endpoint, len, meta)]
    ELSE IF Caught(outcome)
    THEN [fut EXCEPT !.st = "done", !.outcome = outcome,
                     !.res = ErrorResult(fut.endpoint, len, meta, outcome)]
    ELSE [fut EXCEPT !.st = "done", !.outcome = outcome, !.raised = TRUE]

(***************************************************************************)
(* check_endpoint_health                                                   *)
(***************************************************************************)
HealthOutcomes == {"InService", "Failed", "raise"}

\* the health check with any answered status taken as serving
check_endpoint_health_any_status(answer) ==
    IF answer = "raise"
    THEN [healthy |-> FALSE, status |-> "describe_endpoint raised"]
    ELSE [healthy |-> TRUE, status |-> answer]

check_endpoint_health(answer) ==
    IF answer = "raise"
    THEN [healthy |-> FALSE, status |-> "describe_endpoint raised"]
    ELSE [healthy |-> answer = "InService", status |-> answer]

(***************************************************************************)
(* run_benchmarks                                                          *)
(***************************************************************************)
NoFile == [exists |-> FALSE]
NoReturn == [endpoint |-> "none", calls |-> 0, value |-> FALSE]
NoWarmup == [ep |-> 0, n |-> 0, last |-> NoReturn]
NoCalls == [warmup |-> {}, measure |-> {}]

SeqsUpTo(S, n) == UNION {[1..m -> S] : m \in 0..n}

Init ==
    /\ input_endpoints = SubSeq(EndpointNames, 1, MaxEndpoints)
    /\ images \in SeqsUpTo(ImagePool, MaxImages)
    /\ max_size = DefaultMaxSize
    /\ quality = DefaultQuality
    /\ warmup \in 0..MaxWarmup
    /\ pc = "list_images"
    /\ h = 1
    /\ describe_calls = [e \in Endpoints |-> 0]
    /\ observed = [e \in Endpoints |-> "unqueried"]
    /\ healthy_endpoints = <<>>
    /\ endpoints = input_endpoints
    /\ compressed_images = <<>>
    /\ wu = NoWarmup
    /\ invoked = NoCalls
    /\ failure \in FailureKinds
    /\ oversize_sent = FALSE
    /\ i = 0
    /\ futures = <<>>
    /\ k = 0
    /\ results = <<>>
    /\ frame_of = <<>>
    /\ sleeps = 0
    /\ interrupted = "no"
    /\ raw_file = NoFile
    /\ summary_file = NoFile

\* the run going on with an empty image list
ListImagesNoReturn ==
    /\ pc = "list_images"
    /\ pc' = "health"
    /\ UNCHANGED <<input_endpoints, images, max_size, quality,
                   warmup, h, describe_calls, observed,
                   healthy_endpoints, endpoints, compressed_images, wu, invoked, failure,
                   oversize_sent, i, futures, k, results, frame_of, sleeps, interrupted,
                   raw_file, summary_file>>

\* lines 208-215
ListImages ==
    /\ pc = "list_images"
    /\ pc' = IF images = <<>> THEN "returned" ELSE "health"
    /\ UNCHANGED <<input_endpoints, images, max_size, quality,
                   warmup, h, describe_calls, observed,
                   healthy_endpoints, endpoints, compressed_images, wu, invoked, failure,
                   oversize_sent, i, futures, k, results, frame_of, sleeps, interrupted,
                   raw_file, summary_file>>

\* lines 235-241: one iteration of the health loop
HealthCheck ==
    /\ pc = "health"
    /\ h <= Len(endpoints)
    /\ \E answer \in HealthOutcomes :
         LET ep == endpoints[h]
             r == check_endpoint_health(answer)
         IN  /\ describe_calls' = [describe_calls EXCEPT ![ep] = @ + 1]
             /\ observed' = [observed EXCEPT ![ep] = answer]
             /\ healthy_endpoints' =
                    IF r.healthy THEN Append(healthy_endpoints, ep)
                    ELSE healthy_endpoints
    /\ h' = h + 1
    /\ UNCHANGED <<input_endpoints, images, max_size, quality,
                   warmup, pc, endpoints,
                   compressed_images, wu, invoked, failure, oversize_sent, i, futures, k,
                   results, frame_of, sleeps, interrupted, raw_file, summary_file>>

\* the gate without the rebinding of line 249
HealthGateKeepsAll ==
    /\ pc = "health"
    /\ h > Len(endpoints)
    /\ pc' = IF healthy_endpoints = <<>> THEN "returned" ELSE "compress"
    /\ UNCHANGED <<input_endpoints, images, max_size, quality,
                   warmup, h, describe_calls, observed,
                   healthy_endpoints, endpoints, compressed_images, wu, invoked,
                   failure, oversize_sent, i, futures, k, results, frame_of,
                   sleeps, interrupted, raw_file, summary_file>>

\* lines 243-249
HealthGate ==
    /\ pc = "health"
    /\ h > Len(endpoints)
    /\ IF healthy_endpoints = <<>>
       THEN pc' = "returned" /\ UNCHANGED endpoints
       ELSE pc' = "compress" /\ endpoints' = healthy_endpoints
    /\ UNCHANGED <<input_endpoints, images, max_size, quality,
                   warmup, h, describe_calls, observed,
                   healthy_endpoints, compressed_images, wu, invoked, failure,
                   oversize_sent, i, futures, k, results, frame_of, sleeps, interrupted,
                   raw_file, summary_file>>

\* lines 254-257: one iteration of the pre-processing loop
Compress ==
    /\ pc = "compress"
    /\ Len(compressed_images) < Len(images)
    /\ compressed_images' =
          Append(compressed_images,
                 compress_image(images[Len(compressed_images) + 1], quality))
    /\ UNCHANGED <<input_endpoints, images, max_size, quality,
                   warmup, pc, h, describe_calls, observed,
                   healthy_endpoints, endpoints, wu, invoked, failure, oversize_sent, i,
                   futures, k, results, frame_of, sleeps, interrupted, raw_file,
                   summary_file>>

\* lines 272-275
WarmupEnabled == warmup > 0 /\ compressed_images # <<>>

\* the warm-up starting before the pre-processing loop has ended
CompressDoneEarly ==
    /\ pc = "compress"
    /\ IF WarmupEnabled
       THEN pc' = "warmup" /\ wu' = [ep |-> 1, n |-> 0, last |-> NoReturn] /\ UNCHANGED i
       ELSE pc' = "frame" /\ i' = 1 /\ UNCHANGED wu
    /\ UNCHANGED <<input_endpoints, images, max_size, quality,
                   warmup, h, describe_calls, observed,
                   healthy_endpoints, endpoints, compressed_images, invoked, failure,
                   oversize_sent, futures, k, results, frame_of, sleeps, interrupted,
                   raw_file, summary_file>>

CompressDone ==
    /\ pc = "compress"
    /\ Len(compressed_images) = Len(images)
    /\ IF WarmupEnabled
       THEN pc' = "warmup" /\ wu' = [ep |-> 1, n |-> 0, last |-> NoReturn] /\ UNCHANGED i
       ELSE pc' = "frame" /\ i' = 1 /\ UNCHANGED wu
    /\ UNCHANGED <<input_endpoints, images, max_size, quality,
                   warmup, h, describe_calls, observed,
                   healthy_endpoints, endpoints, compressed_images, invoked, failure,
                   oversize_sent, futures, k, results, frame_of, sleeps, interrupted,
                   raw_file, summary_file>>

WarmupOutcomes == {"ok", "fail"}

\* a warm-up failure taking the endpoint out of the benchmarked list
WarmupCallExcluding ==
    /\ pc = "warmup"
    /\ wu.ep <= Len(endpoints)
    /\ \E outcome \in WarmupOutcomes :
         LET ep == endpoints[wu.ep]
             body == compressed_images[1].bytes
             calls == wu.n + 1
         IN  /\ invoked' = [invoked EXCEPT !.warmup = @ \cup {ep}]
             /\ oversize_sent' = (oversize_sent \/ body > MAX_PAYLOAD_SIZE_BYTES)
             /\ endpoints' = IF outcome = "fail"
                             THEN SelectSeq(endpoints, LAMBDA e : e # ep)
                             ELSE endpoints
             /\ wu' = IF outcome = "fail"
                      THEN [ep |-> wu.ep, n |-> 0,
                            last |-> [endpoint |-> ep, calls |-> calls, value |-> FALSE]]
                      ELSE IF calls = warmup
                      THEN [ep |-> wu.ep + 1, n |-> 0,
                            last |-> [endpoint |-> ep, calls |-> calls, value |-> TRUE]]
                      ELSE [ep |-> wu.ep, n |-> calls, last |-> wu.last]
    /\ UNCHANGED <<input_endpoints, images, max_size, quality,
                   warmup, pc, h, describe_calls, observed,
                   healthy_endpoints, compressed_images, failure, i,
                   futures, k, results, frame_of, sleeps, interrupted, raw_file,
                   summary_file>>

\* lines 181-193: one iteration of the loop of warm_up_endpoint; the call
\* returns False at the first failure and True after num_warmup successes
WarmupCall ==
    /\ pc = "warmup"
    /\ wu.ep <= Len(endpoints)
    /\ \E outcome \in WarmupOutcomes :
         LET ep == endpoints[wu.ep]
             body == compressed_images[1].bytes
             calls == wu.n + 1
         IN  /\ invoked' = [invoked EXCEPT !.warmup = @ \cup {ep}]
             /\ oversize_sent' = (oversize_sent \/ body > MAX_PAYLOAD_SIZE_BYTES)
             /\ wu' = IF outcome = "fail"
                      THEN [ep |-> wu.ep + 1, n |-> 0,
                            last |-> [endpoint |-> ep, calls |-> calls, value |-> FALSE]]
                      ELSE IF calls = warmup
                      THEN [ep |-> wu.ep + 1, n |-> 0,
                            last |-> [endpoint |-> ep, calls |-> calls, value |-> TRUE]]
                      ELSE [ep |-> wu.ep, n |-> calls, last |-> wu.last]
    /\ UNCHANGED <<input_endpoints, images, max_size, quality,
                   warmup, pc, h, describe_calls, observed,
                   healthy_endpoints, endpoints, compressed_images, failure, i,
                   futures, k, results, frame_of, sleeps, interrupted, raw_file,
                   summary_file>>

\* the frame loop starting while endpoints are still to be warmed up
WarmupDoneAnyTime ==
    /\ pc = "warmup"
    /\ pc' = "frame"
    /\ i' = 1
    /\ wu' = NoWarmup
    /\ UNCHANGED <<input_endpoints, images, max_size, quality,
                   warmup, h, describe_calls, observed,
                   healthy_endpoints, endpoints, compressed_images, invoked, failure,
                   oversize_sent, futures, k, results, frame_of, sleeps,
                   interrupted, raw_file, summary_file>>

\* lines 278-282
WarmupDone ==
    /\ pc = "warmup"
    /\ wu.ep > Len(endpoints)
    /\ pc' = "frame"
    /\ i' = 1
    /\ wu' = NoWarmup
    /\ UNCHANGED <<input_endpoints, images, max_size, quality,
                   warmup, h, describe_calls, observed,
                   healthy_endpoints, endpoints, compressed_images, invoked, failure,
                   oversize_sent, futures, k, results, frame_of, sleeps,
                   interrupted, raw_file, summary_file>>

(***************************************************************************)
(* The frame loop, lines 281-300.                                          *)
(***************************************************************************)
Payload(f) == compressed_images[f].bytes

\* every frame given the metadata of the first image
MetadataOfFirst(f) == compressed_images[1].metadata

Metadata(f) == compressed_images[f].metadata

\* a result() that does not block
FutureDoneNoWait(fut) == TRUE

\* what Future.result() (line 290) and the executor's shutdown(wait=True)
\* on leaving the with block (line 286) wait for
FutureDone(fut) == fut.st = "done"
Joined(f) == \A j \in 1..Len(futures[f]) : FutureDone(futures[f][j])

\* line 282: the next frame, or the end of the loop
FrameStart ==
    /\ pc = "frame"
    /\ IF i > Len(compressed_images)
       THEN pc' = "save" /\ UNCHANGED futures
       ELSE pc' = "submit" /\ futures' = Append(futures, <<>>)
    /\ UNCHANGED <<input_endpoints, images, max_size, quality,
                   warmup, h, describe_calls, observed,
                   healthy_endpoints, endpoints, compressed_images, wu, invoked, failure,
                   oversize_sent, i, k, results, frame_of, sleeps, interrupted,
                   raw_file, summary_file>>

\* a pool of one worker: a call starts when the call before it has returned
SubmitSerial ==
    /\ pc = "submit"
    /\ \A j \in 1..Len(futures[i]) : futures[i][j].st = "done"
    /\ LET n == Len(futures[i]) + 1
           fut == ProberEnter(NewFuture(endpoints[n]), Payload(i), Metadata(i))
       IN  /\ futures' = [futures EXCEPT ![i] = Append(@, fut)]
           /\ invoked' = IF fut.invocations > 0
                         THEN [invoked EXCEPT !.measure = @ \cup {fut.endpoint}]
                         ELSE invoked
           /\ oversize_sent' = (oversize_sent \/
                  (fut.invocations > 0 /\ Payload(i) > MAX_PAYLOAD_SIZE_BYTES))
           /\ IF n = Len(endpoints)
              THEN pc' = "collect" /\ k' = 1
              ELSE pc' = "submit" /\ UNCHANGED k
    /\ UNCHANGED <<input_endpoints, images, max_size, quality,
                   warmup, h, describe_calls, observed,
                   healthy_endpoints, endpoints, compressed_images, wu, failure, i,
                   results, frame_of, sleeps, interrupted, raw_file, summary_file>>

\* line 287: one executor.submit of the list comprehension.  The pool has a
\* worker per endpoint, so the call starts at once; lines 94-114 of
\* benchmark_endpoint touch nothing shared and are taken with the submit.
Submit ==
    /\ pc = "submit"
    /\ LET n == Len(futures[i]) + 1
           fut == ProberEnter(NewFuture(endpoints[n]), Payload(i), Metadata(i))
       IN  /\ futures' = [futures EXCEPT ![i] = Append(@, fut)]
           /\ invoked' = IF fut.invocations > 0
                         THEN [invoked EXCEPT !.measure = @ \cup {fut.endpoint}]
                         ELSE invoked
           /\ oversize_sent' = (oversize_sent \/
                  (fut.invocations > 0 /\ Payload(i) > MAX_PAYLOAD_SIZE_BYTES))
           /\ IF n = Len(endpoints)
              THEN pc' = "collect" /\ k' = 1
              ELSE pc' = "submit" /\ UNCHANGED k
    /\ UNCHANGED <<input_endpoints, images, max_size, quality,
                   warmup, h, describe_calls, observed,
                   healthy_endpoints, endpoints, compressed_images, wu, failure, i,
                   results, frame_of, sleeps, interrupted, raw_file, summary_file>>

\* the worker thread appending its result to results itself
ProberReturnRecording ==
    /\ \E f \in 1..Len(futures) : \E j \in 1..Len(futures[f]) :
         \E outcome \in {"ok", failure} :
            LET done == ProberLeave(futures[f][j], Payload(f), Metadata(f), outcome)
            IN  /\ futures[f][j].st = "invoking"
                /\ futures' = [futures EXCEPT ![f][j] = done]
                /\ results' = Append(results, done.res)
                /\ frame_of' = Append(frame_of, f)
    /\ UNCHANGED <<input_endpoints, images, max_size, quality,
                   warmup, pc, h, describe_calls, observed,
                   healthy_endpoints, endpoints, compressed_images, wu, invoked,
                   failure, oversize_sent, i, k, sleeps,
                   interrupted, raw_file, summary_file>>

\* invoke_endpoint returns or raises in a worker thread, and its
\* benchmark_endpoint finishes (lines 123-155)
ProberReturn ==
    /\ \E f \in 1..Len(futures) : \E j \in 1..Len(futures[f]) :
         \E outcome \in {"ok", failure} :
            /\ futures[f][j].st = "invoking"
            /\ futures' = [futures EXCEPT ![f][j] =
                              ProberLeave(@, Payload(f), Metadata(f), outcome)]
    /\ UNCHANGED <<input_endpoints, images, max_size, quality,
                   warmup, pc, h, describe_calls, observed,
                   healthy_endpoints, endpoints, compressed_images, wu, invoked,
                   failure, oversize_sent, i, k, results, frame_of, sleeps,
                   interrupted, raw_file, summary_file>>

\* the collection loop going through the futures from the last to the first
CollectReversed ==
    /\ pc = "collect"
    /\ LET fut == futures[i][Len(futures[i]) + 1 - k]
       IN  /\ FutureDone(fut)
           /\ IF fut.raised
              THEN /\ pc' = "loop_raised"
                   /\ UNCHANGED <<results, frame_of, k>>
              ELSE /\ results' = Append(results, fut.res)
                   /\ frame_of' = Append(frame_of, i)
                   /\ IF k = Len(futures[i])
                      THEN pc' = "exit_with" /\ UNCHANGED k
                      ELSE pc' = "collect" /\ k' = k + 1
    /\ UNCHANGED <<input_endpoints, images, max_size, quality,
                   warmup, h, describe_calls, observed,
                   healthy_endpoints, endpoints, compressed_images, wu, invoked, failure,
                   oversize_sent, i, futures, sleeps, interrupted, raw_file,
                   summary_file>>

\* the collection loop putting each result in front of the earlier ones
CollectPrepending ==
    /\ pc = "collect"
    /\ FutureDone(futures[i][k])
    /\ IF futures[i][k].raised
       THEN /\ pc' = "loop_raised"
            /\ UNCHANGED <<results, frame_of, k>>
       ELSE /\ results' = <<futures[i][k].res>> \o results
            /\ frame_of' = <<i>> \o frame_of
            /\ IF k = Len(futures[i])
               THEN pc' = "exit_with" /\ UNCHANGED k
               ELSE pc' = "collect" /\ k' = k + 1
    /\ UNCHANGED <<input_endpoints, images, max_size, quality,
                   warmup, h, describe_calls, observed,
                   healthy_endpoints, endpoints, compressed_images, wu, invoked, failure,
                   oversize_sent, i, futures, sleeps, interrupted, raw_file,
                   summary_file>>

\* the collection loop appending successes only
CollectSuccessesOnly ==
    /\ pc = "collect"
    /\ futures[i][k].st = "done"
    /\ IF futures[i][k].res.Status = <<"Success">>
       THEN /\ results' = Append(results, futures[i][k].res)
            /\ frame_of' = Append(frame_of, i)
       ELSE UNCHANGED <<results, frame_of>>
    /\ IF k = Len(futures[i])
       THEN pc' = "exit_with" /\ UNCHANGED k
       ELSE pc' = "collect" /\ k' = k + 1
    /\ UNCHANGED <<input_endpoints, images, max_size, quality,
                   warmup, h, describe_calls, observed,
                   healthy_endpoints, endpoints, compressed_images, wu, invoked,
                   failure, oversize_sent, i, futures, sleeps, interrupted,
                   raw_file, summary_file>>

\* lines 289-295: future.result() returns (or re-raises) and the result is appended
Collect ==
    /\ pc = "collect"
    /\ FutureDone(futures[i][k])
    /\ IF futures[i][k].raised
       THEN /\ pc' = "loop_raised"
            /\ UNCHANGED <<results, frame_of, k>>
       ELSE /\ results' = Append(results, futures[i][k].res)
            /\ frame_of' = Append(frame_of, i)
            /\ IF k = Len(futures[i])
               THEN pc' = "exit_with" /\ UNCHANGED k
               ELSE pc' = "collect" /\ k' = k + 1
    /\ UNCHANGED <<input_endpoints, images, max_size, quality,
                   warmup, h, describe_calls, observed,
                   healthy_endpoints, endpoints, compressed_images, wu, invoked, failure,
                   oversize_sent, i, futures, sleeps, interrupted, raw_file,
                   summary_file>>

\* line 286: the with block is left, the executor joins its workers
ExitWith ==
    /\ pc = "exit_with"
    /\ Joined(i)
    /\ pc' = "sleep"
    /\ UNCHANGED <<input_endpoints, images, max_size, quality,
                   warmup, h, describe_calls, observed,
                   healthy_endpoints, endpoints, compressed_images, wu, invoked, failure,
                   oversize_sent, i, futures, k, results, frame_of, sleeps,
                   interrupted, raw_file, summary_file>>

\* line 297, and the loop's step to the next frame
Sleep ==
    /\ pc = "sleep"
    /\ sleeps' = sleeps + 1
    /\ i' = i + 1
    /\ pc' = "frame"
    /\ UNCHANGED <<input_endpoints, images, max_size, quality,
                   warmup, h, describe_calls, observed,
                   healthy_endpoints, endpoints, compressed_images, wu, invoked, failure,
                   oversize_sent, futures, k, results, frame_of, interrupted,
                   raw_file, summary_file>>

\* A KeyboardInterrupt is raised in the control thread somewhere in the try
\* block (lines 281-297).  Inside the with block the executor's __exit__
\* runs first; then the handler of line 299.
InTry == pc \in {"frame", "submit", "collect", "exit_with", "sleep"}
InWith == pc \in {"submit", "collect", "exit_with"}

Interrupt ==
    /\ InTry
    /\ interrupted = "no"
    /\ interrupted' = pc
    /\ pc' = IF InWith THEN "shutdown" ELSE "save"
    /\ UNCHANGED <<input_endpoints, images, max_size, quality,
                   warmup, h, describe_calls, observed,
                   healthy_endpoints, endpoints, compressed_images, wu, invoked, failure,
                   oversize_sent, i, futures, k, results, frame_of, sleeps,
                   raw_file, summary_file>>

\* ThreadPoolExecutor.__exit__ on the way out of the with block: shutdown(wait=True)
Shutdown ==
    /\ pc = "shutdown"
    /\ Joined(i)
    /\ pc' = "save"
    /\ UNCHANGED <<input_endpoints, images, max_size, quality,
                   warmup, h, describe_calls, observed,
                   healthy_endpoints, endpoints, compressed_images, wu, invoked, failure,
                   oversize_sent, i, futures, k, results, frame_of, sleeps,
                   interrupted, raw_file, summary_file>>

(***************************************************************************)
(* The raw-results artifact, lines 302-311.  csv.DictWriter writes a row   *)
(* key by key of fieldnames, '' for a key the row lacks, and raises        *)
(* ValueError at a row that has a key fieldnames lacks (the rows before    *)
(* it are written).                                                        *)
(***************************************************************************)
Fieldnames(rs) == IF rs # <<>> THEN DOMAIN rs[1] ELSE {}
Writable(r, keys) == DOMAIN r \subseteq keys
CsvRow(r, keys) == [key \in keys |-> IF key \in DOMAIN r THEN r[key] ELSE ""]

RECURSIVE WrittenRows(_, _)
WrittenRows(rs, keys) ==
    IF rs = <<>> \/ ~Writable(Head(rs), keys) THEN <<>>
    ELSE <<CsvRow(Head(rs), keys)>> \o WrittenRows(Tail(rs), keys)

SaveRaw ==
    /\ pc = "save"
    /\ LET keys == Fieldnames(results)
           rows == WrittenRows(results, keys)
       IN  /\ raw_file' = [exists |-> TRUE, header |-> keys, rows |-> rows]
           /\ pc' = IF Len(rows) = Len(results) THEN "summary" ELSE "save_raised"
    /\ UNCHANGED <<input_endpoints, images, max_size, quality,
                   warmup, h, describe_calls, observed,
                   healthy_endpoints, endpoints, compressed_images, wu, invoked, failure,
                   oversize_sent, i, futures, k, results, frame_of, sleeps,
                   interrupted, summary_file>>

(***************************************************************************)
(* The summary, lines 318-374.  Values are integers (confidence in         *)
(* hundredths); round(sum / n, d) is in units of 10^-d.                    *)
(***************************************************************************)
Get(r, key, default) == IF key \in DOMAIN r THEN r[key] ELSE default

\* the aggregation taking every result, whatever its Status
IsRecorded(r) == "Status" \in DOMAIN r

\* line 321
IsSuccess(r) == Get(r, "Status", <<>>) = <<"Success">>
Range(s) == {s[n] : n \in 1..Len(s)}

\* the keys of model_stats, in insertion order (lines 320-330)
RECURSIVE ModelsWithSuccess(_)
ModelsWithSuccess(rs) ==
    IF rs = <<>> THEN <<>>
    ELSE LET before == ModelsWithSuccess(SubSeq(rs, 1, Len(rs) - 1))
             r == rs[Len(rs)]
         IN  IF IsSuccess(r) /\ r.Model \notin Range(before)
             THEN Append(before, r.Model) ELSE before

\* model_stats[model][...], lines 331-334
\* the statistics of a model taken over all its results
ResultsOf(rs, model) == SelectSeq(rs, LAMBDA r : r.Model = model)

SuccessesOf(rs, model) == SelectSeq(rs, LAMBDA r : IsSuccess(r) /\ r.Model = model)
Column(rs, key) == [n \in 1..Len(rs) |-> Get(rs[n], key, 0)]

RECURSIVE Sum(_)
Sum(s) == IF s = <<>> THEN 0 ELSE Head(s) + Sum(Tail(s))
MinOf(s) == CHOOSE x \in Range(s) : \A y \in Range(s) : x <= y
MaxOf(s) == CHOOSE x \in Range(s) : \A y \in Range(s) : x >= y
\* round(a / b): to the nearest integer, an exact half to the even one
RoundDiv(a, b) ==
    LET q == a \div b
        r == a % b
    IN  IF 2 * r < b THEN q
        ELSE IF 2 * r > b THEN q + 1
        ELSE IF q % 2 = 0 THEN q ELSE q + 1
Avg(s, scale) == IF Len(s) > 0 THEN RoundDiv(Sum(s) * scale, Len(s)) ELSE 0

\* lines 338-365
SummaryRow(rs, model) ==
    LET mine == SuccessesOf(rs, model)
        roundtrip == Column(mine, "Roundtrip_Latency_ms")
    IN  [Model |-> model,
         Samples |-> Len(roundtrip),
         Avg_Roundtrip_ms |-> Avg(roundtrip, 100),
         Min_Roundtrip_ms |-> IF roundtrip # <<>> THEN MinOf(roundtrip) * 100 ELSE 0,
         Max_Roundtrip_ms |-> IF roundtrip # <<>> THEN MaxOf(roundtrip) * 100 ELSE 0,
         Avg_Inference_ms |-> Avg(Column(mine, "Inference_Latency_ms"), 100),
         Avg_Confidence |-> Avg(Column(mine, "Max_Confidence"), 100),
         Avg_Detections |-> Avg(Column(mine, "Detections"), 10)]

SummaryData(rs) ==
    LET models == ModelsWithSuccess(rs)
    IN  [n \in 1..Len(models) |-> SummaryRow(rs, models[n])]

Summarize ==
    /\ pc = "summary"
    /\ LET summary_data == SummaryData(results)
       IN  summary_file' = IF summary_data # <<>>
                           THEN [exists |-> TRUE, rows |-> summary_data]
                           ELSE summary_file
    /\ pc' = "done"
    /\ UNCHANGED <<input_endpoints, images, max_size, quality,
                   warmup, h, describe_calls, observed,
                   healthy_endpoints, endpoints, compressed_images, wu, invoked, failure,
                   oversize_sent, i, futures, k, results, frame_of, sleeps,
                   interrupted, raw_file>>

Next ==
    \/ ListImages
    \/ HealthCheck
    \/ HealthGate
    \/ Compress
    \/ CompressDone
    \/ WarmupCall
    \/ WarmupDone
    \/ FrameStart
    \/ Submit
    \/ ProberReturn
    \/ Collect
    \/ ExitWith
    \/ Sleep
    \/ Interrupt
    \/ Shutdown
    \/ SaveRaw
    \/ Summarize

Spec == Init /\ [][Next]_vars

(***************************************************************************)
(* The prober on its own: one fan-out of one frame, from the submit of     *)
(* line 287 to the last append of line 291, for payloads around the        *)
(* ceiling.                                                                *)
(***************************************************************************)
InitProber ==
    /\ \E n \in 1..MaxEndpoints : input_endpoints = SubSeq(EndpointNames, 1, n)
    /\ \E img \in ProberImages :
         /\ images = <<img>>
         /\ compressed_images = <<compress_image(img, DefaultQuality)>>
    /\ max_size = DefaultMaxSize
    /\ quality = DefaultQuality
    /\ warmup = 0
    /\ pc = "submit"
    /\ h = Len(input_endpoints) + 1
    /\ describe_calls = [e \in Endpoints |-> IF e \in Range(input_endpoints) THEN 1 ELSE 0]
    /\ observed = [e \in Endpoints |->
                      IF e \in Range(input_endpoints) THEN "InService" ELSE "unqueried"]
    /\ healthy_endpoints = input_endpoints
    /\ endpoints = input_endpoints
    /\ wu = NoWarmup
    /\ invoked = NoCalls
    /\ failure \in FailureKinds
    /\ oversize_sent = FALSE
    /\ i = 1
    /\ futures = << <<>> >>
    /\ k = 0
    /\ results = <<>>
    /\ frame_of = <<>>
    /\ sleeps = 0
    /\ interrupted = "no"
    /\ raw_file = NoFile
    /\ summary_file = NoFile

NextProber ==
    \/ Submit
    \/ ProberReturn
    \/ Collect

SpecProber == InitProber /\ [][NextProber]_vars

(***************************************************************************)
(* The compressor on its own: one compress_image call (line 256), for      *)
(* every starting quality and every sequence of sizes the JPEG encoder may *)
(* return.  The encoder and the resampling filter are the environment: the *)
(* size of an encode is any of EncodeSizes.  full is the size of an encode *)
(* of the unscaled image at the starting quality; when lines 43-49 do not  *)
(* resize, the first encode of the call is that encode.                    *)
(***************************************************************************)
EncodeSizes ==
    {MAX_PAYLOAD_SIZE_BYTES - 1, MAX_PAYLOAD_SIZE_BYTES,
     MAX_PAYLOAD_SIZE_BYTES + 1, MAX_PAYLOAD_SIZE_BYTES + 4096}
EncodeSeqs == UNION {[1..m -> EncodeSizes] : m \in 1..MaxEncodes}
StartQualities == {10, 20, 25, 50, 85}
MaxSizes == {DefaultMaxSize, 4096}
PhotoSizes == {<<1280, 720>>, <<1288, 1288>>, <<3000, 4000>>}

Max(a, b) == IF a > b THEN a ELSE b

\* line 43: ratio < 1, for ratio = min(max_size / width, max_size / height)
Resizes(width, height, limit) == limit < width \/ limit < height

\* lines 43-49, the int() of the scaled sides taken exactly
NewDimensions(width, height, limit) ==
    IF Resizes(width, height, limit)
    THEN <<(width * limit) \div Max(width, height),
           (height * limit) \div Max(width, height)>>
    ELSE <<width, height>>

\* lines 30-55: the image as opened and resized, with what the encoder
\* makes of it
Opened(size, limit, enc, full) ==
    [path |-> "photo.png", original_size_bytes |-> 30 * 1024 * 1024,
     width |-> size[1], height |-> size[2],
     dimensions |-> NewDimensions(size[1], size[2], limit),
     full |-> full, enc |-> enc]

InitCompress ==
    /\ input_endpoints = SubSeq(EndpointNames, 1, 1)
    /\ max_size \in MaxSizes
    /\ quality \in StartQualities
    /\ \E size \in PhotoSizes : \E enc \in EncodeSeqs : \E full \in EncodeSizes :
         /\ Resizes(size[1], size[2], max_size) \/ full = enc[1]
         /\ images = <<Opened(size, max_size, enc, full)>>
    /\ warmup = 0
    /\ pc = "compress"
    /\ h = 2
    /\ describe_calls = [e \in Endpoints |-> IF e = EndpointNames[1] THEN 1 ELSE 0]
    /\ observed = [e \in Endpoints |->
                      IF e = EndpointNames[1] THEN "InService" ELSE "unqueried"]
    /\ healthy_endpoints = input_endpoints
    /\ endpoints = input_endpoints
    /\ compressed_images = <<>>
    /\ wu = NoWarmup
    /\ invoked = NoCalls
    /\ failure = "timeout"
    /\ oversize_sent = FALSE
    /\ i = 0
    /\ futures = <<>>
    /\ k = 0
    /\ results = <<>>
    /\ frame_of = <<>>
    /\ sleeps = 0
    /\ interrupted = "no"
    /\ raw_file = NoFile
    /\ summary_file = NoFile

NextCompress ==
    \/ Compress

SpecCompress == InitCompress /\ [][NextCompress]_vars

(***************************************************************************)
(* The artifacts on their own: lines 302-374 for every results list of up  *)
(* to MaxResults results, each of them a success, a slower success, a      *)
(* failed call or a pre-flight rejection of some endpoint.                 *)
(***************************************************************************)
SmallOutput == compress_image(SmallImage, DefaultQuality)
HugeOutput == compress_image(HugeImage, DefaultQuality)
SlowSuccessResult(endpoint_name, len, image_metadata) ==
    [SuccessResult(endpoint_name, len, image_metadata) EXCEPT
        !.Roundtrip_Latency_ms = 3 * RoundtripMs,
        !.Inference_Latency_ms = 2 * OkBody.model_latency_ms,
        !.Max_Confidence = 0,
        !.Detections = 0]
ResultPool ==
    UNION {{SuccessResult(e, SmallOutput.bytes, SmallOutput.metadata),
            SlowSuccessResult(e, SmallOutput.bytes, SmallOutput.metadata),
            ErrorResult(e, SmallOutput.bytes, SmallOutput.metadata, "timeout"),
            TooLargeResult(e, HugeOutput.bytes, HugeOutput.metadata)} :
           e \in Endpoints}

InitSummary ==
    /\ input_endpoints = SubSeq(EndpointNames, 1, MaxEndpoints)
    /\ images = <<SmallImage, HugeImage>>
    /\ max_size = DefaultMaxSize
    /\ quality = DefaultQuality
    /\ warmup = 0
    /\ pc = "save"
    /\ h = Len(input_endpoints) + 1
    /\ describe_calls = [e \in Endpoints |-> 1]
    /\ observed = [e \in Endpoints |-> "InService"]
    /\ healthy_endpoints = input_endpoints
    /\ endpoints = input_endpoints
    /\ compressed_images = <<SmallOutput, HugeOutput>>
    /\ wu = NoWarmup
    /\ invoked = NoCalls
    /\ failure = "timeout"
    /\ oversize_sent = FALSE
    /\ i = 3
    /\ futures = <<>>
    /\ k = 0
    /\ results \in SeqsUpTo(ResultPool, MaxResults)
    /\ frame_of = [n \in 1..Len(results) |-> 1]
    /\ sleeps = 2
    /\ interrupted = "no"
    /\ raw_file = NoFile
    /\ summary_file = NoFile

NextSummary ==
    \/ SaveRaw
    \/ Summarize

SpecSummary == InitSummary /\ [][NextSummary]_vars

(***************************************************************************)
(* Properties.                                                             *)
(***************************************************************************)
FutureIds ==
    {c \in (1..Len(futures)) \X (1..MaxEndpoints) : c[2] <= Len(futures[c[1]])}
FutureAt(c) == futures[c[1]][c[2]]
ResultIndexes(f) == {n \in 1..Len(results) : frame_of[n] = f}
ResultsOfFrame(f) == Cardinality(ResultIndexes(f))
MeasuredFields ==
    {"Roundtrip_Latency_ms", "Inference_Latency_ms", "Max_Confidence", "Detections"}
IsPayloadTooLargeStatus(status) ==
    Len(status) >= 2 /\ status[1] = "Error: " /\ status[2] = "Payload too large ("
AfterLoop == pc \in {"save", "summary", "done", "save_raised"}

\* C1: a call of benchmark_endpoint with a payload longer than the ceiling
\* returns at once a result whose Status begins "Error: Payload too large ("
\* and makes no invoke_endpoint call.
C1_OversizeShortCircuits ==
    \A c \in FutureIds :
        Payload(c[1]) > MAX_PAYLOAD_SIZE_BYTES =>
            /\ FutureAt(c).st = "done"
            /\ FutureAt(c).invocations = 0
            /\ ~FutureAt(c).raised
            /\ IsPayloadTooLargeStatus(FutureAt(c).res.Status)
            /\ FutureAt(c).res.Model = FutureAt(c).endpoint

C1_Witness ==
    /\ Payload(1) = MAX_PAYLOAD_SIZE_BYTES + 1
    /\ pc = "exit_with"
    /\ Len(results) = 2
    /\ IsPayloadTooLargeStatus(results[1].Status)
    /\ invoked.measure = {}

\* C2: a call of benchmark_endpoint with a payload not longer than the
\* ceiling issues exactly one invoke_endpoint call, whatever its outcome.
C2_ExactlyOneInvocation ==
    \A c \in FutureIds :
        Payload(c[1]) <= MAX_PAYLOAD_SIZE_BYTES =>
            /\ FutureAt(c).invocations = 1
            /\ FutureAt(c).st \in {"invoking", "done"}
            /\ FutureAt(c).st = "done" => FutureAt(c).outcome \in InvokeOutcomes
            /\ FutureAt(c).endpoint \in invoked.measure

C2_Witness ==
    /\ Payload(1) = MAX_PAYLOAD_SIZE_BYTES
    /\ Len(futures[1]) = 2
    /\ futures[1][1].st = "done" /\ futures[1][1].outcome = "timeout"
    /\ futures[1][2].st = "done" /\ futures[1][2].outcome = "ok"
    /\ futures[1][1].invocations = 1

\* C3: whatever invoke_endpoint and the reading of its response do
\* (timeout, transport error, a body that is no JSON or no JSON object),
\* benchmark_endpoint returns a result with Status "Error: <message>" and
\* raises nothing to the dispatcher; the loop never ends by an exception of a
\* call, and a run that is not interrupted records a result for every
\* endpoint of every frame.
C3_FailuresBecomeResults ==
    /\ \A c \in FutureIds :
          FutureAt(c).outcome \in FailureKinds =>
              /\ FutureAt(c).st = "done"
              /\ ~FutureAt(c).raised
              /\ FutureAt(c).res.Status =
                     <<"Error: ", ExceptionMessage(FutureAt(c).outcome)>>
              /\ FutureAt(c).res.Model = FutureAt(c).endpoint
    /\ pc # "loop_raised"
    /\ (AfterLoop /\ interrupted = "no") =>
          Len(results) = Len(compressed_images) * Len(endpoints)

C3_Witness ==
    /\ failure = "not_object"
    /\ pc = "save" /\ interrupted = "no"
    /\ Len(results) = 4
    /\ futures[1][1].outcome = "not_object"
    /\ results[1].Status = <<"Error: ", "'list' object has no attribute 'get'">>
    /\ results[2].Status = <<"Success">>
    /\ results[3].Status = <<"Success">>

\* C4: in every entry of results, Roundtrip_Latency_ms, Inference_Latency_ms,
\* Max_Confidence and Detections are present when Status is Success and all
\* absent otherwise.
C4_MeasuredFieldsIffSuccess ==
    \A n \in 1..Len(results) :
        IF results[n].Status = <<"Success">>
        THEN MeasuredFields \subseteq DOMAIN results[n]
        ELSE /\ MeasuredFields \cap DOMAIN results[n] = {}
             /\ results[n].Status[1] = "Error: "

C4_Witness ==
    /\ Len(results) = 4
    /\ results[1].Status = <<"Error: ", "Read timeout on endpoint URL">>
    /\ results[2].Status = <<"Success">>
    /\ IsPayloadTooLargeStatus(results[3].Status)

\* C5: every frame whose fan-out was not interrupted has, once its results
\* are collected, exactly one result per healthy endpoint, with that
\* endpoint's name in Model.
FanOutOpen(f) ==
    f = i /\ (pc \in {"submit", "collect"} \/ interrupted \in {"submit", "collect"})
C5_OneResultPerEndpoint ==
    \A f \in 1..Len(futures) :
        \/ FanOutOpen(f)
        \/ /\ ResultsOfFrame(f) = Len(endpoints)
           /\ \A j \in 1..Len(endpoints) :
                 Cardinality({n \in ResultIndexes(f) :
                                 results[n].Model = endpoints[j]}) = 1

C5_Witness ==
    /\ pc = "sleep" /\ i = 2
    /\ Len(endpoints) = 2
    /\ ResultsOfFrame(1) = 2 /\ ResultsOfFrame(2) = 2
    /\ results[3].Status = <<"Success">>
    /\ results[4].Status[1] = "Error: "

\* C6: frames are sequential.  When a frame has been dispatched, every call
\* of every earlier frame has returned and has its result recorded, and a
\* pacing sleep was taken after each earlier frame; a sleep is taken only
\* after a joined frame; calls of two frames are never in flight together.
InFlight(f) == \E j \in 1..Len(futures[f]) : futures[f][j].st # "done"
FrameRecorded(f) ==
    /\ Len(futures[f]) = Len(endpoints)
    /\ \A j \in 1..Len(futures[f]) : futures[f][j].st = "done"
    /\ ResultsOfFrame(f) = Len(endpoints)
C6_FramesSequential ==
    /\ \A g \in 1..Len(futures) : \A f \in 1..(g - 1) : FrameRecorded(f)
    /\ Len(futures) <= sleeps + 1
    /\ \A f \in 1..sleeps : f <= Len(futures) /\ FrameRecorded(f)
    /\ \A f \in 1..Len(futures) : \A g \in 1..Len(futures) :
          (InFlight(f) /\ InFlight(g)) => f = g

C6_Witness ==
    /\ Len(futures) = 2
    /\ sleeps = 1
    /\ Len(futures[2]) = 2
    /\ futures[2][1].st = "invoking" /\ futures[2][2].st = "invoking"
    /\ ResultsOfFrame(1) = 2

\* C7: after a KeyboardInterrupt in the frame loop no later frame is
\* dispatched, every call already dispatched completes, and the results of
\* the calls already dispatched are in the results the artifacts are written
\* from.
C7_InterruptKeepsDispatchedResults ==
    interrupted # "no" =>
        /\ Len(futures) <= i
        /\ AfterLoop =>
              \A f \in 1..Len(futures) :
                  /\ \A j \in 1..Len(futures[f]) : futures[f][j].st = "done"
                  /\ ResultsOfFrame(f) = Len(futures[f])

\* C8: whenever the interrupt arrives, every frame has in the final results
\* either no result or one result per healthy endpoint.
C8_FramesAllOrNothing ==
    AfterLoop =>
        \A f \in 1..Len(compressed_images) :
            ResultsOfFrame(f) \in {0, Len(endpoints)}

\* C9: the health gate queries every endpoint of the input list once,
\* whatever the other queries gave; an endpoint is healthy exactly when its
\* query answered InService, a query that raises makes it unhealthy and the
\* loop goes on; the healthy list is the InService endpoints in input order.
C9_HealthGate ==
    /\ \A n \in 1..Len(input_endpoints) :
          /\ describe_calls[input_endpoints[n]] = (IF n < h THEN 1 ELSE 0)
          /\ (observed[input_endpoints[n]] = "unqueried") = (n >= h)
    /\ healthy_endpoints =
          SelectSeq(SubSeq(input_endpoints, 1, h - 1),
                    LAMBDA e : observed[e] = "InService")
    /\ pc \notin {"list_images", "health"} /\ images # <<>> =>
          h = Len(input_endpoints) + 1
    /\ pc \notin {"list_images", "health", "returned"} =>
          endpoints = healthy_endpoints

C9_Witness ==
    /\ pc = "compress"
    /\ Len(input_endpoints) = 2
    /\ observed[input_endpoints[1]] = "raise"
    /\ observed[input_endpoints[2]] = "InService"
    /\ describe_calls[input_endpoints[2]] = 1
    /\ healthy_endpoints = <<input_endpoints[2]>>

\* C10: an endpoint the health gate found unhealthy gets no invoke_endpoint
\* call, warm-up or measurement, and is the Model of no result and of no
\* summary row.
Unhealthy(e) == observed[e] \in {"Failed", "raise"}
C10_UnhealthyNeverCalled ==
    \A e \in Endpoints :
        Unhealthy(e) =>
            /\ e \notin invoked.warmup
            /\ e \notin invoked.measure
            /\ \A c \in FutureIds : FutureAt(c).endpoint # e
            /\ \A n \in 1..Len(results) : results[n].Model # e
            /\ summary_file.exists =>
                  \A n \in 1..Len(summary_file.rows) : summary_file.rows[n].Model # e

C10_Witness ==
    /\ pc = "done"
    /\ warmup > 0
    /\ Unhealthy(input_endpoints[1])
    /\ invoked.warmup = {input_endpoints[2]}
    /\ invoked.measure = {input_endpoints[2]}
    /\ summary_file.exists
    /\ Len(results) = 2

\* C11: when the image folder holds no image, or when every endpoint's
\* health check fails, run_benchmarks returns with no invoke_endpoint call
\* made (warm-up or measurement), no result produced and neither the raw
\* nor the summary artifact written.
NoImages == images = <<>>
AllUnhealthy ==
    /\ h > Len(input_endpoints)
    /\ \A n \in 1..Len(input_endpoints) : Unhealthy(input_endpoints[n])
NothingProduced ==
    /\ invoked = NoCalls
    /\ ~oversize_sent
    /\ futures = <<>>
    /\ results = <<>>
    /\ compressed_images = <<>>
    /\ ~raw_file.exists
    /\ ~summary_file.exists
C11_RunLevelFailureProducesNothing ==
    /\ (NoImages \/ AllUnhealthy) =>
          /\ pc \in {"list_images", "health", "returned"}
          /\ NothingProduced
    /\ pc = "returned" => (NoImages \/ AllUnhealthy) /\ NothingProduced
    /\ (NoImages /\ pc # "list_images") => pc = "returned"

C11_Witness ==
    /\ pc = "returned"
    /\ images # <<>>
    /\ warmup > 0
    /\ observed[input_endpoints[1]] = "Failed"
    /\ observed[input_endpoints[2]] = "raise"
    /\ NothingProduced

\* C12: for every healthy endpoint and every warm-up count n > 0,
\* warm_up_endpoint makes exactly n calls to the endpoint, whichever of them
\* fail: when it has returned, it has made n calls.
C12_WarmupIssuesAllCalls ==
    wu.last.endpoint # "none" => wu.last.calls = warmup

\* C13: warm-up never changes the benchmarked endpoints.  Through warm-up
\* and after it the endpoints list is the healthy list of the health gate,
\* every frame is fanned out to exactly that list, and, whatever warm-up
\* calls fail, warm-up reaches every endpoint after a failing one: once
\* past warm-up, every healthy endpoint has had a warm-up call.
AfterWarmup ==
    pc \in {"frame", "submit", "collect", "exit_with", "sleep", "shutdown",
            "save", "summary", "done", "save_raised", "loop_raised"}
WarmedSoFar ==
    {endpoints[n] : n \in 1..Min(Len(endpoints), wu.ep - 1)}
       \cup (IF wu.n > 0 THEN {endpoints[wu.ep]} ELSE {})
C13_WarmupKeepsEndpointSet ==
    /\ (pc = "warmup" \/ AfterWarmup) => endpoints = healthy_endpoints
    /\ pc = "warmup" => invoked.warmup = WarmedSoFar
    /\ (AfterWarmup /\ warmup > 0) => invoked.warmup = Range(healthy_endpoints)
    /\ \A c \in FutureIds : FutureAt(c).endpoint = healthy_endpoints[c[2]]
    /\ \A f \in 1..Len(futures) :
          (f = i /\ (pc = "submit" \/ interrupted = "submit"))
             \/ Len(futures[f]) = Len(healthy_endpoints)

C13_Witness ==
    /\ pc = "warmup"
    /\ warmup = 2
    /\ Len(healthy_endpoints) = 2
    /\ wu.ep = 2 /\ wu.n = 1
    /\ wu.last = [endpoint |-> healthy_endpoints[1], calls |-> 1, value |-> FALSE]
    /\ invoked.warmup = Range(healthy_endpoints)

\* C14: no invoke_endpoint call of the run, warm-up or measurement, is made
\* with a body longer than the ceiling, also when the first image is still
\* over the ceiling after compression reached the quality floor.
C14_OversizeNeverSent ==
    ~oversize_sent

\* C15: in every output of compress_image, under_limit is true exactly
\* when the payload is strictly shorter than the ceiling: it is false when
\* the quality loop stopped at the floor with the payload still over the
\* ceiling, and never false for a payload under the ceiling.
C15_UnderLimitIffBelowCeiling ==
    \A n \in 1..Len(compressed_images) :
        LET out == compressed_images[n]
        IN  /\ out.bytes \in Range(images[n].enc)
            /\ out.metadata.under_limit = (out.bytes < MAX_PAYLOAD_SIZE_BYTES)
            /\ (out.metadata.final_quality <= QualityFloor
                   /\ out.bytes > MAX_PAYLOAD_SIZE_BYTES) => ~out.metadata.under_limit
            /\ out.bytes < MAX_PAYLOAD_SIZE_BYTES => out.metadata.under_limit

C15_Witness ==
    /\ quality = 25
    /\ Len(compressed_images) = 1
    /\ images[1].enc = <<MAX_PAYLOAD_SIZE_BYTES + 4096, MAX_PAYLOAD_SIZE_BYTES + 1>>
    /\ compressed_images[1].metadata.final_quality = 15
    /\ compressed_images[1].bytes = MAX_PAYLOAD_SIZE_BYTES + 1
    /\ ~compressed_images[1].metadata.under_limit

\* C19: for every image and every starting quality, the payload
\* compress_image returns is not longer than an encode of the same image at
\* the starting quality and full resolution.
C19_NeverLargerThanFullScaleEncode ==
    \A n \in 1..Len(compressed_images) :
        compressed_images[n].bytes <= images[n].full

\* C16: the summary has a row for an endpoint exactly when the endpoint has
\* a result with Status Success, it has one such row, and the row's Samples
\* is the number of Success results whose Model is the endpoint; error
\* results do not count.
SuccessCount(e) ==
    Cardinality({n \in 1..Len(results) :
                    results[n].Status = <<"Success">> /\ results[n].Model = e})
SummaryRows == IF summary_file.exists THEN summary_file.rows ELSE <<>>
SummaryRowsOf(e) == {n \in 1..Len(SummaryRows) : SummaryRows[n].Model = e}
RunEnded == pc \in {"done", "save_raised", "loop_raised"}
C17_NoResultsNoArtifacts ==
    (RunEnded /\ results = <<>>) =>
        /\ pc = "done"
        /\ ~raw_file.exists
        /\ ~summary_file.exists

\* C18: once an image exists and an endpoint is healthy, the run reaches its
\* end and writes the raw artifact with one row per recorded result, for
\* every mix and order of call outcomes; the artifact writer never raises.
C18_RawArtifactHasEveryResult ==
    /\ pc # "save_raised"
    /\ pc \in {"summary", "done"} =>
          /\ raw_file.exists
          /\ Len(raw_file.rows) = Len(results)

\* C20: results are in frame submission order: for frames f < g, every
\* recorded result of frame f is at a lower index than every recorded
\* result of frame g; with the frames done one after the other, the
\* results of frames 1..f are the first entries of results.
C20_ResultsInFrameOrder ==
    /\ \A m \in 1..Len(results) : \A n \in 1..Len(results) :
          frame_of[m] < frame_of[n] => m < n
    /\ Len(frame_of) = Len(results)
    /\ \A n \in 1..Len(results) :
          /\ frame_of[n] \in 1..Len(futures)
          /\ \E j \in 1..Len(futures[frame_of[n]]) :
                results[n] = futures[frame_of[n]][j].res

C20_Witness ==
    /\ Len(results) = 4
    /\ frame_of = <<1, 1, 2, 2>>
    /\ images = <<HugeImage, SmallImage>>
    /\ IsPayloadTooLargeStatus(results[2].Status)
    /\ results[3].Status = <<"Success">>

\* C21: compression of every input image completes before any network
\* activity: no health query, warm-up call or measurement call is issued
\* before the last compress_image call has returned.
NoHealthQuery == \A e \in Endpoints : describe_calls[e] = 0
NoInvocation == invoked = NoCalls /\ futures = <<>> /\ ~oversize_sent
C22_PhasesOrdered ==
    /\ pc \in {"list_images", "health"} =>
          invoked = NoCalls /\ futures = <<>> /\ wu = NoWarmup
    /\ (invoked.warmup # {} \/ futures # <<>>) => h > Len(input_endpoints)
    /\ pc = "warmup" => invoked.measure = {} /\ futures = <<>>
    /\ (futures # <<>> \/ invoked.measure # {}) =>
          /\ AfterWarmup
          /\ wu = NoWarmup
          /\ warmup > 0 => invoked.warmup = Range(endpoints)
    /\ warmup = 0 => invoked.warmup = {}

C22_Witness ==
    /\ pc = "submit"
    /\ warmup = 2
    /\ Len(endpoints) = 2
    /\ invoked.warmup = Range(endpoints)
    /\ Len(futures) = 1 /\ Len(futures[1]) = 1
    /\ futures[1][1].st = "invoking"
    /\ invoked.measure = {endpoints[1]}

\* C23: compress_image is called once per input image: compressed_images
\* gets one entry per image, in order, each the output of compress_image
\* for that image, and is complete and stays as it is once dispatching
\* starts.  Every measurement call of a frame is given that entry's bytes
\* and metadata: its result carries the entry's sizes and dimensions, and
\* the calls of a frame are rejected pre-flight all or none.
Dispatching == pc \notin {"list_images", "health", "compress", "returned"}
CarriesFrame(res, out) ==
    /\ res.Payload_Size_MB = out.metadata.compressed_size_mb
    /\ res.Original_Size_MB = out.metadata.original_size_mb
    /\ "Image_Dimensions" \in DOMAIN res =>
          res.Image_Dimensions = out.metadata.compressed_dimensions
    /\ IsPayloadTooLargeStatus(res.Status) = (out.bytes > MAX_PAYLOAD_SIZE_BYTES)
C23_CompressedOncePerImage ==
    /\ Len(compressed_images) <= Len(images)
    /\ \A n \in 1..Len(compressed_images) :
          compressed_images[n] = compress_image(images[n], quality)
    /\ Dispatching => Len(compressed_images) = Len(images)
    /\ Len(futures) <= Len(compressed_images)
    /\ \A c \in FutureIds :
          (FutureAt(c).st = "done" /\ ~FutureAt(c).raised) =>
              CarriesFrame(FutureAt(c).res, compressed_images[c[1]])
    /\ \A n \in 1..Len(results) :
          CarriesFrame(results[n], compressed_images[frame_of[n]])

C23_Witness ==
    /\ images = <<SmallImage, HugeImage>>
    /\ Len(endpoints) = 2
    /\ Len(results) = 4
    /\ results[1].Status = <<"Success">>
    /\ results[2].Status[1] = "Error: "
    /\ results[1].Payload_Size_MB = results[2].Payload_Size_MB
    /\ IsPayloadTooLargeStatus(results[3].Status)
    /\ IsPayloadTooLargeStatus(results[4].Status)
    /\ results[3].Original_Size_MB # results[1].Original_Size_MB

\* C24: for every starting quality and every sequence of encoded sizes the
\* quality loop of compress_image terminates; each iteration lowers the
\* quality by exactly 10 and is made only while the encoded size is over
\* the ceiling and the quality is above 20; at the end the encoded size is
\* not over the ceiling or the quality is at most 20.
Iterations(out) == (quality - out.metadata.final_quality) \div QualityStep
C24_QualityLoopTerminates ==
    \A n \in 1..Len(compressed_images) :
        LET out == compressed_images[n]
            img == images[n]
            steps == Iterations(out)
        IN  /\ steps >= 0
            /\ out.metadata.final_quality = quality - QualityStep * steps
            /\ \A m \in 1..steps :
                  /\ EncodedSize(img, m) > MAX_PAYLOAD_SIZE_BYTES
                  /\ quality - QualityStep * (m - 1) > QualityFloor
            /\ out.bytes = EncodedSize(img, steps + 1)
            /\ \/ out.bytes <= MAX_PAYLOAD_SIZE_BYTES
               \/ out.metadata.final_quality <= QualityFloor

C24_Witness ==
    /\ quality = 50
    /\ Len(compressed_images) = 1
    /\ images[1].enc = <<MAX_PAYLOAD_SIZE_BYTES + 4096, MAX_PAYLOAD_SIZE_BYTES + 1>>
    /\ compressed_images[1].metadata.final_quality = 20
    /\ Iterations(compressed_images[1]) = 3
    /\ compressed_images[1].bytes = MAX_PAYLOAD_SIZE_BYTES + 1

\* C25: in every summary row each average (round-trip, inference,
\* confidence, detections) is the sum of the field over exactly the
\* endpoint's Success results divided by their number, to the precision
\* the row is written with; the minimum and maximum round-trip are those
\* of the same results; error results contribute nothing; the number
\* divided by is never zero, also for a results list with only errors.
SuccessIndexes(e) ==
    {n \in 1..Len(results) :
        results[n].Status = <<"Success">> /\ results[n].Model = e}
RECURSIVE FieldSum(_, _)
FieldSum(S, key) ==
    IF S = {} THEN 0
    ELSE LET n == CHOOSE x \in S : TRUE
         IN  results[n][key] + FieldSum(S \ {n}, key)
IsAverage(value, total, count) ==
    /\ count > 0
    /\ 2 * (value * count - total) <= count
    /\ 2 * (total - value * count) <= count
C25_AveragesOverSuccesses ==
    pc = "done" =>
        \A n \in 1..Len(SummaryRows) :
            LET row == SummaryRows[n]
                S == SuccessIndexes(row.Model)
                count == Cardinality(S)
            IN  /\ count > 0
                /\ row.Samples = count
                /\ IsAverage(row.Avg_Roundtrip_ms,
                             FieldSum(S, "Roundtrip_Latency_ms") * 100, count)
                /\ IsAverage(row.Avg_Inference_ms,
                             FieldSum(S, "Inference_Latency_ms") * 100, count)
                /\ IsAverage(row.Avg_Confidence,
                             FieldSum(S, "Max_Confidence") * 100, count)
                /\ IsAverage(row.Avg_Detections,
                             FieldSum(S, "Detections") * 10, count)
                /\ \E m \in S :
                      row.Min_Roundtrip_ms = results[m].Roundtrip_Latency_ms * 100
                /\ \E m \in S :
                      row.Max_Roundtrip_ms = results[m].Roundtrip_Latency_ms * 100
                /\ \A m \in S :
                      /\ row.Min_Roundtrip_ms <= results[m].Roundtrip_Latency_ms * 100
                      /\ row.Max_Roundtrip_ms >= results[m].Roundtrip_Latency_ms * 100

C25_Witness ==
    /\ pc = "done"
    /\ Len(results) = 3
    /\ results[1].Status = <<"Success">> /\ results[1].Model = EndpointNames[1]
    /\ results[2].Status[1] = "Error: " /\ results[2].Model = EndpointNames[1]
    /\ results[3].Status = <<"Success">> /\ results[3].Model = EndpointNames[1]
    /\ results[3].Roundtrip_Latency_ms = 3 * RoundtripMs
    /\ Len(SummaryRows) = 1
    /\ SummaryRows[1].Samples = 2
    /\ SummaryRows[1].Avg_Roundtrip_ms = 2 * RoundtripMs * 100
    /\ SummaryRows[1].Min_Roundtrip_ms = RoundtripMs * 100
    /\ SummaryRows[1].Max_Roundtrip_ms = 3 * RoundtripMs * 100
    /\ SummaryRows[1].Avg_Detections = 15

\* C26: results is append-only and written by the control thread alone.
\* Every step leaves results as it is or adds one result at its end, and
\* only the collection loop of the control thread adds one; a step of a
\* worker thread, and the steps that write the artifacts and aggregate,
\* leave it as it is.
WorkerStep ==
    \E c \in FutureIds :
        FutureAt(c).st = "invoking" /\ futures'[c[1]][c[2]].st = "done"
ResultsStep ==
    /\ \/ results' = results
       \/ /\ Len(results') = Len(results) + 1
          /\ SubSeq(results', 1, Len(results)) = results
          /\ pc = "collect"
          /\ results'[Len(results')] = futures[i][k].res
    /\ WorkerStep => results' = results
    /\ pc \in {"save", "summary", "shutdown"} => results' = results
C26_ResultsAppendOnly ==
    [][ResultsStep]_vars

C26_Witness ==
    /\ pc = "done"
    /\ Len(results) = 4
    /\ raw_file.exists /\ Len(raw_file.rows) = 4
    /\ summary_file.exists
    /\ results[2].Status[1] = "Error: "
    /\ \A n \in 1..4 : results[n] = futures[frame_of[n]][((n - 1) % 2) + 1].res

\* C27: within a fan-out the start of an endpoint's call never waits for
\* another call to return: while endpoints remain to be dispatched the next
\* submit can be made, whatever calls are still in flight, so all the calls
\* of a frame can be in flight together; and the control thread does not
\* go past the fan-out before every call of the frame has returned.
C27_FanOutInParallel ==
    /\ pc = "submit" => ENABLED Submit
    /\ (pc = "collect" /\ ~FutureDone(futures[i][k])) => ~ENABLED Collect
    /\ pc = "exit_with" => Len(results) >= k
    /\ pc = "sleep" =>
          /\ Len(futures[i]) = Len(endpoints)
          /\ \A j \in 1..Len(futures[i]) : futures[i][j].st = "done"
          /\ ResultsOfFrame(i) = Len(endpoints)
    /\ AfterLoop => \A c \in FutureIds : FutureAt(c).st = "done"

C27_Witness ==
    /\ pc = "collect"
    /\ i = 1 /\ k = 1
    /\ failure = "timeout"
    /\ Len(endpoints) = 2
    /\ Len(futures[1]) = 2
    /\ \A j \in 1..2 : futures[1][j].st = "invoking"
    /\ invoked.measure = Range(endpoints)
    /\ results = <<>>

\* C28: within a frame results are recorded in the order of the healthy
\* endpoint list, whatever order the calls finish in: the k-th result of a
\* frame has the k-th healthy endpoint as Model, and while the control
\* thread waits for the k-th call, exactly k - 1 results of the frame are
\* recorded, also when later calls have already returned.
RankInFrame(n) == Cardinality({m \in ResultIndexes(frame_of[n]) : m <= n})
C28_ResultsInEndpointOrder ==
    /\ \A n \in 1..Len(results) :
          /\ RankInFrame(n) <= Len(endpoints)
          /\ results[n].Model = endpoints[RankInFrame(n)]
          /\ results[n] = futures[frame_of[n]][RankInFrame(n)].res
    /\ pc = "collect" => ResultsOfFrame(i) = k - 1

C28_Witness ==
    /\ pc = "collect"
    /\ i = 1 /\ k = 1
    /\ Len(futures[1]) = 2
    /\ futures[1][1].st = "invoking"
    /\ futures[1][2].st = "done" /\ futures[1][2].outcome = "ok"
    /\ results = <<>>

\* C29: the under_limit flag of the compressor and the pre-flight test of
\* the prober agree for every payload: a call for a frame whose under_limit
\* is false is rejected pre-flight and makes no invoke_endpoint call, and a
\* call for a frame whose under_limit is true is not rejected.
C29_UnderLimitAgreesWithPreflight ==
    \A c \in FutureIds :
        IF compressed_images[c[1]].metadata.under_limit
        THEN /\ FutureAt(c).invocations = 1
             /\ ~IsPayloadTooLargeStatus(FutureAt(c).res.Status)
        ELSE /\ FutureAt(c).invocations = 0
             /\ IsPayloadTooLargeStatus(FutureAt(c).res.Status)

\* C30: for every starting quality of at least 20 and every sequence of
\* encoded sizes, final_quality is not below 20, and it is the starting
\* quality less 10 times the number of re-encodes made.
C30_FinalQualityNotBelowFloor ==
    \A n \in 1..Len(compressed_images) :
        LET out == compressed_images[n]
            reencodes == QualityLoop(images[n], quality, 1).encodes - 1
        IN  /\ out.metadata.final_quality = quality - QualityStep * reencodes
            /\ quality >= QualityFloor =>
                  out.metadata.final_quality >= QualityFloor

====
